---- MODULE Spec2Model ----
(***************************************************************************)
(* Model of rotate-mac-address (src/src/main.rs): the rotation loop of     *)
(* rotate_mac_addresses, the command adapter set_mac_address, the address  *)
(* generator new_random_mac_address, the interval jitter variate and the   *)
(* error collation collate_errors.                                         *)
(*                                                                         *)
(* Strings are TLA+ strings (built with \o, cut with SubSeq).  f64 values  *)
(* are exact rationals [n |-> numerator, d |-> positive denominator]; on   *)
(* the sampled inputs (dyadic bases and variances, small cycle lengths)    *)
(* every f64 operation of the program is exact, so the two agree.          *)
(***************************************************************************)
EXTENDS Integers, Sequences, FiniteSets, TLC

VARIABLES
    target_os,          \* build target: selects PROGRAM and the argument layout
    interface_name,     \* rotate_mac_addresses parameter (flags.interface_name)
    cycle_seconds,      \* rotate_mac_addresses parameter (flags.cycle_seconds)
    dry_run,            \* rotate_mac_addresses parameter (flags.dry_run)
    pc,                 \* position in rotate_mac_addresses
    errors,             \* the Vec<Error> of the loop, as error descriptions
    change_result,      \* result of the set_mac_address call being matched
    cmd_output_called,  \* whether the last set_mac_address call ran cmd.output()
    exit_status,        \* exit status of the command of that call, run to completion (-1: none)
    output,             \* lines printed by the last step
    base,               \* the random base drawn by the last variate call
    duration,           \* the Duration passed to the last sleep, in milliseconds
    result,             \* return value of rotate_mac_addresses
    recent,             \* outcomes of the last (at most MAX_AMOUNT_OF_ERRORS) iterations
    flags,              \* the Flags parsed by main at startup
    generated,          \* the (vendor, address) pair of the set_mac_address call being matched
    command,            \* the program and args built by that call
    attempts,           \* set_mac_address calls made so far (counted up to MaxCount)
    sleeps,             \* sleeps returned from so far (counted up to MaxCount)
    call,               \* function under application (function specification only)
    ret                 \* its return value (function specification only)

vars == <<target_os, interface_name, cycle_seconds, dry_run, pc, errors,
          change_result, cmd_output_called, exit_status, output, base,
          duration, result, recent, flags, generated, command, attempts,
          sleeps, call, ret>>

config_vars == <<target_os, interface_name, cycle_seconds, dry_run, flags>>

\* ------------------------------------------------------------------------
\* Constants of the program

DEFAULT_DEVICE_NAME == "eth0"

DEFAULT_CYCLE_SECONDS == 30 * 60

\* CYCLE_VARIANCE = 0.25
CYCLE_VARIANCE == [n |-> 1, d |-> 4]

MAX_AMOUNT_OF_ERRORS == 3

\* a vendor table with no entries
VENDORS_empty == <<>>

VENDORS == <<"Intel", "HewlettPackard", "Foxconn", "Cisco", "Amd">>

mac_address_prefix(self) ==
    CASE self = "Intel" -> "00:1b:77"
      [] self = "HewlettPackard" -> "00:1b:78"
      [] self = "Foxconn" -> "00:01:6c"
      [] self = "Cisco" -> "00:10:29"
      [] self = "Amd" -> "00:0c:87"

\* impl Display for Vendor
vendor_fmt(self) ==
    CASE self = "Intel" -> "Intel"
      [] self = "HewlettPackard" -> "HP"
      [] self = "Foxconn" -> "Foxconn"
      [] self = "Cisco" -> "Cisco"
      [] self = "Amd" -> "AMD"

\* VENDORS.choose(rng): any element of the table; None when it is empty
pick ==
    IF Len(VENDORS) = 0 THEN {"panic"} ELSE {VENDORS[i] : i \in 1..Len(VENDORS)}

PROGRAM(os) == IF os = "linux" THEN "ip" ELSE "ifconfig"

\* args of the command, per build target
new_set_mac_address(os, spec) ==
    IF os = "linux"
    THEN <<"link", "set", "dev", spec.interface_name, "addr", spec.new_mac_address>>
    ELSE <<spec.interface_name, "ether", spec.new_mac_address>>

\* ------------------------------------------------------------------------
\* Bounds and sampled inputs

\* the random base of variate is drawn from {0/BaseDen, ..., BaseDen/BaseDen}
BaseDen == 4

\* variances of the function specification are {0/VarianceDen, ..., 1}
VarianceDen == 4

TargetOsSamples == {"linux", "macos"}

InterfaceNameSamples == {DEFAULT_DEVICE_NAME, "no such interface"}

CycleSecondsSamples == {1, 12, DEFAULT_CYCLE_SECONDS}

\* descriptions of the io::Error that cmd.output() can return
ErrorDescriptions == {"ENOENT", "EACCES"}

\* exit statuses of a command that ran to completion
ExitStatusSamples == {0, 1}

\* attempts and sleeps are counted exactly up to MaxCount, and stay there
MaxCount == 4

Count(k) == IF k < MaxCount THEN k + 1 ELSE k

\* ------------------------------------------------------------------------
\* f64 arithmetic, exact on the sampled inputs

F64(i) == [n |-> i, d |-> 1]

F64Sub(a, b) == [n |-> a.n * b.d - b.n * a.d, d |-> a.d * b.d]

F64Add(a, b) == [n |-> a.n * b.d + b.n * a.d, d |-> a.d * b.d]

F64Mul(a, b) == [n |-> a.n * b.n, d |-> a.d * b.d]

F64Le(a, b) == a.n * b.d <= b.n * a.d

\* f64::trunc in place of f64::round
F64RoundTruncating(a) ==
    IF a.n >= 0 THEN F64(a.n \div a.d) ELSE F64(0 - ((0 - a.n) \div a.d))

\* f64::round: to the nearest integer, halves away from zero
F64Round(a) ==
    IF a.n >= 0
    THEN F64((2 * a.n + a.d) \div (2 * a.d))
    ELSE F64(0 - ((2 * (0 - a.n) + a.d) \div (2 * a.d)))

\* `as u64`: truncates toward zero, negative values saturate to 0
\* (the saturation at u64::MAX lies far outside the sampled cycle lengths)
F64AsU64(a) == IF a.n < 0 THEN 0 ELSE a.n \div a.d

\* ------------------------------------------------------------------------
\* Pure functions

\* rng.gen_range(0..=9)
random_digit_with_zero == 0..9

\* rng.gen_range(1..=9)
random_digit == 1..9

DecimalDigits == <<"0", "1", "2", "3", "4", "5", "6", "7", "8", "9">>

\* u8::to_string
RECURSIVE to_string(_)
to_string(k) ==
    IF k < 10 THEN DecimalDigits[k + 1]
    ELSE to_string(k \div 10) \o DecimalDigits[(k % 10) + 1]

LENGTH == 3

\* the fold of new_random_mac_address over i in 1..=LENGTH; digits[2i-1] and
\* digits[2i] are the two random_digit draws of step i
RECURSIVE fold_octets(_, _, _)
fold_octets(addr, i, digits) ==
    IF i > LENGTH THEN addr
    ELSE fold_octets(addr \o to_string(digits[2 * i - 1])
                          \o to_string(digits[2 * i])
                          \o (IF i < LENGTH THEN ":" ELSE ""),
                     i + 1, digits)

new_random_mac_address(vendor, digits) ==
    [vendor |-> vendor,
     new_address |-> fold_octets(mac_address_prefix(vendor) \o ":", 1, digits)]

\* variate with the base not centred on 0.5
variate_uncentred(b, seconds, variance) ==
    LET delta == F64Mul(b, variance)
    IN  F64Add(F64(seconds), F64Mul(F64(seconds), delta))

variate(b, seconds, variance) ==
    LET delta == F64Mul(F64Sub(b, [n |-> 1, d |-> 2]), variance)
    IN  F64Add(F64(seconds), F64Mul(F64(seconds), delta))

\* the fold of collate_errors with the separator after every description
RECURSIVE fold_errors_trailing(_, _, _)
fold_errors_trailing(overall, i, errs) ==
    IF i > Len(errs) THEN overall
    ELSE fold_errors_trailing(overall \o errs[i] \o ", ", i + 1, errs)

\* the fold of collate_errors over the descriptions zipped with 1..
RECURSIVE fold_errors(_, _, _)
fold_errors(overall, i, errs) ==
    IF i > Len(errs) THEN overall
    ELSE fold_errors(overall \o errs[i] \o (IF i < Len(errs) THEN ", " ELSE ""),
                     i + 1, errs)

collate_errors(errs) == "Failures: " \o fold_errors("", 1, errs)

\* the fold of set_mac_address (dry run) over the args zipped with 1..
RECURSIVE fold_args(_, _, _)
fold_args(s, i, args) ==
    IF i > Len(args) THEN s
    ELSE fold_args(s \o args[i] \o (IF i < Len(args) THEN " " ELSE ""),
                   i + 1, args)

\* ------------------------------------------------------------------------
\* The rotation loop

NoResult == [tag |-> "None", new_address |-> "", vendor |-> "", err |-> ""]

Ok(new_address, vendor) ==
    [tag |-> "Ok", new_address |-> new_address, vendor |-> vendor, err |-> ""]

Err(desc) == [tag |-> "Err", new_address |-> "", vendor |-> "", err |-> desc]

NoBase == [n |-> 0, d |-> 1]

NoPair == [vendor |-> "", new_address |-> ""]

NoCommand == [program |-> "", args |-> <<>>]

\* the digit draws of the loop: all highest, or lowest and highest alternating
LoopDigitRuns ==
    LET lo == CHOOSE x \in random_digit : \A y \in random_digit : x <= y
        hi == CHOOSE x \in random_digit : \A y \in random_digit : y <= x
    IN  {[i \in 1..(2 * LENGTH) |-> hi],
         [i \in 1..(2 * LENGTH) |-> IF i % 2 = 1 THEN lo ELSE hi]}

\* outcomes of cmd.output(): an io::Error, or an Output with an exit status
CommandOutcomes ==
    {[tag |-> "Err", err |-> e, status |-> -1] : e \in ErrorDescriptions}
    \cup {[tag |-> "Ok", err |-> "", status |-> st] : st \in ExitStatusSamples}

\* set_mac_address running the command in dry-run mode too
set_mac_address_ignoring_dry_run(os, name, dry, vendor, digits, outcome) ==
    LET pair == new_random_mac_address(vendor, digits)
        args == new_set_mac_address(os,
                    [interface_name |-> name,
                     new_mac_address |-> pair.new_address])
    IN  [generated |-> pair,
         command |-> [program |-> PROGRAM(os), args |-> args],
         output |-> <<>>,
         cmd_output_called |-> TRUE,
         exit_status |-> outcome.status,
         change_result |-> IF outcome.tag = "Err"
                           THEN Err(outcome.err)
                           ELSE Ok(pair.new_address, pair.vendor)]

\* set_mac_address treating a non-zero exit status as an error
set_mac_address_checking_status(os, name, dry, vendor, digits, outcome) ==
    LET pair == new_random_mac_address(vendor, digits)
        args == new_set_mac_address(os,
                    [interface_name |-> name,
                     new_mac_address |-> pair.new_address])
    IN  IF dry
        THEN [generated |-> pair,
              command |-> [program |-> PROGRAM(os), args |-> args],
              output |-> <<[kind |-> "dry_run",
                            command |-> PROGRAM(os) \o " " \o fold_args("", 1, args)]>>,
              cmd_output_called |-> FALSE,
              exit_status |-> -1,
              change_result |-> Ok(pair.new_address, pair.vendor)]
        ELSE [generated |-> pair,
              command |-> [program |-> PROGRAM(os), args |-> args],
              output |-> <<>>,
              cmd_output_called |-> TRUE,
              exit_status |-> outcome.status,
              change_result |-> IF outcome.tag = "Err"
                                THEN Err(outcome.err)
                                ELSE IF outcome.status # 0
                                     THEN Err("exit status")
                                     ELSE Ok(pair.new_address, pair.vendor)]

\* set_mac_address returning the first vendor of the table with every address
set_mac_address_other_vendor(os, name, dry, vendor, digits, outcome) ==
    LET pair == new_random_mac_address(vendor, digits)
        args == new_set_mac_address(os,
                    [interface_name |-> name,
                     new_mac_address |-> pair.new_address])
    IN  [generated |-> pair,
         command |-> [program |-> PROGRAM(os), args |-> args],
         output |-> IF dry
                    THEN <<[kind |-> "dry_run",
                            command |-> PROGRAM(os) \o " " \o fold_args("", 1, args)]>>
                    ELSE <<>>,
         cmd_output_called |-> ~dry,
         exit_status |-> IF dry THEN -1 ELSE outcome.status,
         change_result |-> IF ~dry /\ outcome.tag = "Err"
                           THEN Err(outcome.err)
                           ELSE Ok(pair.new_address, VENDORS[1])]

\* set_mac_address with its random draws and the outcome cmd.output() would have
set_mac_address(os, name, dry, vendor, digits, outcome) ==
    LET pair == new_random_mac_address(vendor, digits)
        args == new_set_mac_address(os,
                    [interface_name |-> name,
                     new_mac_address |-> pair.new_address])
    IN  IF dry
        THEN [generated |-> pair,
              command |-> [program |-> PROGRAM(os), args |-> args],
              output |-> <<[kind |-> "dry_run",
                            command |-> PROGRAM(os) \o " " \o fold_args("", 1, args)]>>,
              cmd_output_called |-> FALSE,
              exit_status |-> -1,
              change_result |-> Ok(pair.new_address, pair.vendor)]
        ELSE [generated |-> pair,
              command |-> [program |-> PROGRAM(os), args |-> args],
              output |-> <<>>,
              cmd_output_called |-> TRUE,
              exit_status |-> outcome.status,
              change_result |-> IF outcome.tag = "Err"
                                THEN Err(outcome.err)
                                ELSE Ok(pair.new_address, pair.vendor)]

\* the log kept over a success
clear_nothing(errs) == errs

\* errors.clear()
clear(errs) == <<>>

\* errors.insert(0, err)
push_front(errs, err) == <<err>> \o errs

\* errors.push(err)
push(errs, err) == Append(errs, err)

\* errors_count taken before the push
errors_count_before_push(len) ==
    [value |-> MAX_AMOUNT_OF_ERRORS - (len - 1),
     underflow |-> MAX_AMOUNT_OF_ERRORS < len - 1]

\* let errors_count = MAX_AMOUNT_OF_ERRORS - errors.len(), a usize subtraction:
\* the value, and whether it underflows
errors_count(len) ==
    [value |-> MAX_AMOUNT_OF_ERRORS - len, underflow |-> MAX_AMOUNT_OF_ERRORS < len]

\* MAX_AMOUNT_OF_ERRORS - 1 <= errors.len()
abort_decision_early(len) == MAX_AMOUNT_OF_ERRORS - 1 <= len

\* MAX_AMOUNT_OF_ERRORS < errors.len()
abort_decision_late(len) == MAX_AMOUNT_OF_ERRORS < len

\* MAX_AMOUNT_OF_ERRORS <= errors.len()
abort_decision(len) == MAX_AMOUNT_OF_ERRORS <= len

\* keep the newest MAX_AMOUNT_OF_ERRORS outcomes
Remember(window, outcome) ==
    LET w == Append(window, outcome)
    IN  IF Len(w) > MAX_AMOUNT_OF_ERRORS THEN Tail(w) ELSE w

Init ==
    /\ target_os \in TargetOsSamples
    /\ interface_name \in InterfaceNameSamples
    /\ cycle_seconds \in CycleSecondsSamples
    /\ dry_run \in BOOLEAN
    /\ pc = "loop"
    /\ errors = <<>>
    /\ change_result = NoResult
    /\ cmd_output_called = FALSE
    /\ exit_status = -1
    /\ output = <<>>
    /\ base = NoBase
    /\ duration = 0
    /\ result = [tag |-> "None", message |-> ""]
    /\ recent = <<>>
    /\ flags = [interface_name |-> interface_name,
                cycle_seconds |-> cycle_seconds,
                dry_run |-> dry_run]
    /\ generated = NoPair
    /\ command = NoCommand
    /\ attempts = 0
    /\ sleeps = 0
    /\ call = [fn |-> "none"]
    /\ ret = [fn |-> "none"]

\* let change_result = set_mac_address(rng, picker, interface_name, dry_run);
\* the locals of the previous iteration are out of scope.  The expect of
\* VendorPicker::pick panics when the vendor table has nothing to choose.
Attempt ==
    /\ pc = "loop"
    /\ \E vendor \in pick, digits \in LoopDigitRuns, outcome \in CommandOutcomes :
          IF vendor = "panic"
          THEN /\ pc' = "panic"
               /\ UNCHANGED <<output, cmd_output_called, exit_status,
                              change_result, generated, command>>
          ELSE LET r == set_mac_address(target_os, interface_name, dry_run,
                                        vendor, digits, outcome)
               IN  /\ pc' = "match"
                   /\ output' = r.output
                   /\ cmd_output_called' = r.cmd_output_called
                   /\ exit_status' = r.exit_status
                   /\ change_result' = r.change_result
                   /\ generated' = r.generated
                   /\ command' = r.command
    /\ attempts' = Count(attempts)
    /\ base' = NoBase
    /\ duration' = 0
    /\ UNCHANGED <<config_vars, errors, result, recent, sleeps, call, ret>>

\* MatchOk going straight to the next iteration, without the sleep
MatchOkContinue ==
    /\ pc = "match"
    /\ change_result.tag = "Ok"
    /\ errors' = clear(errors)
    /\ output' = <<[kind |-> "success",
                    interface_name |-> interface_name,
                    new_address |-> change_result.new_address,
                    vendor |-> vendor_fmt(change_result.vendor)]>>
    /\ recent' = Remember(recent, [ok |-> TRUE, desc |-> ""])
    /\ pc' = "loop"
    /\ change_result' = NoResult
    /\ exit_status' = -1
    /\ generated' = NoPair
    /\ command' = NoCommand
    /\ UNCHANGED <<config_vars, cmd_output_called, base, duration, result,
                   attempts, sleeps, call, ret>>

\* MatchOk without the success line
MatchOkSilent ==
    /\ pc = "match"
    /\ change_result.tag = "Ok"
    /\ errors' = clear(errors)
    /\ output' = <<>>
    /\ recent' = Remember(recent, [ok |-> TRUE, desc |-> ""])
    /\ pc' = "variate"
    /\ change_result' = NoResult
    /\ exit_status' = -1
    /\ generated' = NoPair
    /\ command' = NoCommand
    /\ UNCHANGED <<config_vars, cmd_output_called, base, duration, result,
                   attempts, sleeps, call, ret>>

\* Ok((new_address, vendor)) => { errors.clear(); println!(...) }
\* the match consumes change_result, and the locals of the call are gone
MatchOk ==
    /\ pc = "match"
    /\ change_result.tag = "Ok"
    /\ errors' = clear(errors)
    /\ output' = <<[kind |-> "success",
                    interface_name |-> interface_name,
                    new_address |-> change_result.new_address,
                    vendor |-> vendor_fmt(change_result.vendor)]>>
    /\ recent' = Remember(recent, [ok |-> TRUE, desc |-> ""])
    /\ pc' = "variate"
    /\ change_result' = NoResult
    /\ exit_status' = -1
    /\ generated' = NoPair
    /\ command' = NoCommand
    /\ UNCHANGED <<config_vars, cmd_output_called, base, duration, result,
                   attempts, sleeps, call, ret>>

\* MatchErr without the break: the loop goes on after the collated error
MatchErrNoBreak ==
    /\ pc = "match"
    /\ change_result.tag = "Err"
    /\ LET pushed == push(errors, change_result.err)
       IN  /\ errors' = pushed
           /\ output' = <<[kind |-> "warning",
                           interface_name |-> interface_name,
                           errors_count |-> errors_count(Len(pushed)).value,
                           underflow |-> errors_count(Len(pushed)).underflow]>>
           /\ result' = IF abort_decision(Len(pushed))
                        THEN [tag |-> "Err", message |-> collate_errors(pushed)]
                        ELSE result
           /\ pc' = "variate"
    /\ recent' = Remember(recent, [ok |-> FALSE, desc |-> change_result.err])
    /\ change_result' = NoResult
    /\ exit_status' = -1
    /\ generated' = NoPair
    /\ command' = NoCommand
    /\ UNCHANGED <<config_vars, cmd_output_called, base, duration, attempts,
                   sleeps, call, ret>>

\* Err(err) => { errors.push(err); eprintln!(...); if MAX <= len { break Err(..) } }
MatchErr ==
    /\ pc = "match"
    /\ change_result.tag = "Err"
    /\ LET pushed == push(errors, change_result.err)
       IN  /\ errors' = pushed
           /\ output' = <<[kind |-> "warning",
                           interface_name |-> interface_name,
                           errors_count |-> errors_count(Len(pushed)).value,
                           underflow |-> errors_count(Len(pushed)).underflow]>>
           /\ IF abort_decision(Len(pushed))
              THEN /\ result' = [tag |-> "Err", message |-> collate_errors(pushed)]
                   /\ pc' = "return"
              ELSE /\ result' = result
                   /\ pc' = "variate"
    /\ recent' = Remember(recent, [ok |-> FALSE, desc |-> change_result.err])
    /\ change_result' = NoResult
    /\ exit_status' = -1
    /\ generated' = NoPair
    /\ command' = NoCommand
    /\ UNCHANGED <<config_vars, cmd_output_called, base, duration, attempts,
                   sleeps, call, ret>>

\* let variation = variate(..); let duration = Duration::from_millis(..); println!(..)
Variate ==
    /\ pc = "variate"
    /\ \E k \in 0..BaseDen :
          LET b == [n |-> k, d |-> BaseDen]
              variation == variate(b, cycle_seconds, CYCLE_VARIANCE)
              millis == F64AsU64(F64Mul(F64Round(variation), F64(1000)))
          IN  /\ base' = b
              /\ duration' = millis
              /\ output' = <<[kind |-> "waiting", seconds |-> millis \div 1000]>>
    /\ pc' = "sleep"
    /\ UNCHANGED <<config_vars, errors, change_result, cmd_output_called,
                   exit_status, result, recent, generated, command, attempts,
                   sleeps, call, ret>>

\* Sleep doubling the cycle length after every wait
SleepBackoff ==
    /\ pc = "sleep"
    /\ pc' = "loop"
    /\ output' = <<>>
    /\ sleeps' = Count(sleeps)
    /\ cycle_seconds' = cycle_seconds * 2
    /\ UNCHANGED <<target_os, interface_name, dry_run, flags, errors,
                   change_result, cmd_output_called, exit_status, base,
                   duration, result, recent, generated, command, attempts,
                   call, ret>>

\* sleep(duration) returns; the loop starts over
Sleep ==
    /\ pc = "sleep"
    /\ pc' = "loop"
    /\ output' = <<>>
    /\ sleeps' = Count(sleeps)
    /\ UNCHANGED <<config_vars, errors, change_result, cmd_output_called,
                   exit_status, base, duration, result, recent, generated,
                   command, attempts, call, ret>>

Next == Attempt \/ MatchOk \/ MatchErr \/ Variate \/ Sleep

Spec == Init /\ [][Next]_vars

\* ------------------------------------------------------------------------
\* The rotation loop when every command attempt fails

AllFailInit == Init /\ ~dry_run

AttemptFails == Attempt /\ change_result'.tag = "Err"

AllFailNext == AttemptFails \/ MatchErr \/ Variate \/ Sleep

\* every command attempt and every sleep returns
AllFailSpec == AllFailInit /\ [][AllFailNext]_vars /\ WF_vars(AllFailNext)

\* ------------------------------------------------------------------------
\* The pure functions applied to sampled inputs

\* digits sampled from the range of random_digit: the ends and the middle of
\* 1..9, and the values just outside it should the range ever include them
DigitSamples == {x \in random_digit : x \in {1, 5, 9, 10, 0}}

FnSecondsSamples == {1, 7, DEFAULT_CYCLE_SECONDS}

\* collate_errors is applied to logs of up to MaxErrors descriptions
MaxErrors == 3

RECURSIVE SeqsUpTo(_, _)
SeqsUpTo(S, k) ==
    IF k = 0 THEN {<<>>}
    ELSE SeqsUpTo(S, k - 1) \cup [1..k -> S]

FnCalls ==
    {[fn |-> "new_random_mac_address", vendor |-> v, digits |-> ds] :
        v \in pick, ds \in [1..(2 * LENGTH) -> DigitSamples]}
    \cup {[fn |-> "variate", base |-> [n |-> k, d |-> BaseDen],
           seconds |-> s, variance |-> [n |-> j, d |-> VarianceDen]] :
        k \in 0..BaseDen, s \in FnSecondsSamples, j \in 0..VarianceDen}
    \cup {[fn |-> "collate_errors", errors |-> es] :
        es \in SeqsUpTo(ErrorDescriptions, MaxErrors)}

FnInit ==
    /\ target_os = "linux"
    /\ interface_name = DEFAULT_DEVICE_NAME
    /\ cycle_seconds = DEFAULT_CYCLE_SECONDS
    /\ dry_run = FALSE
    /\ pc = "loop"
    /\ errors = <<>>
    /\ change_result = NoResult
    /\ cmd_output_called = FALSE
    /\ exit_status = -1
    /\ output = <<>>
    /\ base = NoBase
    /\ duration = 0
    /\ result = [tag |-> "None", message |-> ""]
    /\ recent = <<>>
    /\ flags = [interface_name |-> interface_name,
                cycle_seconds |-> cycle_seconds,
                dry_run |-> dry_run]
    /\ generated = NoPair
    /\ command = NoCommand
    /\ attempts = 0
    /\ sleeps = 0
    /\ call \in FnCalls
    /\ ret = [fn |-> "none"]

loop_vars == <<config_vars, pc, errors, change_result, cmd_output_called,
               exit_status, output, base, duration, result, recent,
               generated, command, attempts, sleeps>>

ApplyNewRandomMacAddress ==
    /\ call.fn = "new_random_mac_address"
    /\ ret.fn = "none"
    /\ ret' = [fn |-> call.fn,
               value |-> new_random_mac_address(call.vendor, call.digits)]
    /\ UNCHANGED <<loop_vars, call>>

ApplyVariate ==
    /\ call.fn = "variate"
    /\ ret.fn = "none"
    /\ ret' = [fn |-> call.fn,
               value |-> variate(call.base, call.seconds, call.variance)]
    /\ UNCHANGED <<loop_vars, call>>

ApplyCollateErrors ==
    /\ call.fn = "collate_errors"
    /\ ret.fn = "none"
    /\ ret' = [fn |-> call.fn, value |-> collate_errors(call.errors)]
    /\ UNCHANGED <<loop_vars, call>>

FnNext == ApplyNewRandomMacAddress \/ ApplyVariate \/ ApplyCollateErrors

FnSpec == FnInit /\ [][FnNext]_vars

\* ------------------------------------------------------------------------
\* Properties of the rotation loop

Aborted == pc = "return"

AllFailed(window) ==
    /\ Len(window) = MAX_AMOUNT_OF_ERRORS
    /\ \A i \in 1..Len(window) : ~window[i].ok

\* number of failures at the end of the window, since the last success
RECURSIVE TrailingFailures(_)
TrailingFailures(window) ==
    IF window = <<>> \/ window[Len(window)].ok THEN 0
    ELSE 1 + TrailingFailures(SubSeq(window, 1, Len(window) - 1))

\* the error descriptions occurring in a message, in the order they occur
RECURSIVE DescriptionsIn(_, _)
DescriptionsIn(msg, i) ==
    IF i > Len(msg) THEN <<>>
    ELSE LET here == {e \in ErrorDescriptions :
                         /\ i + Len(e) - 1 <= Len(msg)
                         /\ SubSeq(msg, i, i + Len(e) - 1) = e}
         IN  IF here = {} THEN DescriptionsIn(msg, i + 1)
             ELSE LET e == CHOOSE x \in here : TRUE
                  IN  <<e>> \o DescriptionsIn(msg, i + Len(e))

\* C1: whenever the last three iterations all ended in a command failure, the
\* controller is Aborted and the error it returns contains exactly the three
\* failure descriptions of those iterations, in the order they occurred.
C1_ThreeFailuresAbortInOrder ==
    AllFailed(recent) =>
        /\ Aborted
        /\ result.tag = "Err"
        /\ DescriptionsIn(result.message, 1)
              = [i \in 1..MAX_AMOUNT_OF_ERRORS |-> recent[i].desc]

C1_Witness ==
    /\ Aborted
    /\ AllFailed(recent)
    /\ recent[1].desc # recent[2].desc
    /\ recent[2].desc = recent[3].desc

\* C2: the FailureLog holds exactly the failures since the last success: it is
\* empty after a success that follows 1 or 2 failures, and the failure after
\* that success is counted as the first one.
C2_SuccessClearsFailureLog ==
    /\ Len(errors) = TrailingFailures(recent)
    /\ (recent # <<>> /\ recent[Len(recent)].ok) => errors = <<>>

C2_Witness ==
    /\ Len(recent) = 3
    /\ ~recent[1].ok /\ recent[2].ok /\ ~recent[3].ok
    /\ Len(errors) = 1

\* C3: the controller is Aborted, and returns an error, only when the last
\* three iterations all failed; as long as the outcomes contain no three
\* failures in a row it stays Running.
C3_AbortOnlyAfterThreeFailures ==
    /\ Aborted => AllFailed(recent)
    /\ result.tag = "Err" => AllFailed(recent)
    /\ ~AllFailed(recent) => pc \in {"loop", "match", "variate", "sleep"}

C3_Witness ==
    /\ pc = "variate"
    /\ Len(recent) = 3
    /\ ~recent[1].ok /\ ~recent[2].ok /\ recent[3].ok

\* C4: the FailureLog holds at most 2 errors when an iteration starts and when
\* its result is matched, never more than 3, and when it holds 3 the loop has
\* ended with the collated error.
C4_FailureLogBounded ==
    /\ pc \in {"loop", "match"} => Len(errors) <= MAX_AMOUNT_OF_ERRORS - 1
    /\ Len(errors) <= MAX_AMOUNT_OF_ERRORS
    /\ Len(errors) = MAX_AMOUNT_OF_ERRORS =>
          /\ Aborted
          /\ result = [tag |-> "Err", message |-> collate_errors(errors)]

C4_Witness ==
    /\ pc = "match"
    /\ Len(errors) = MAX_AMOUNT_OF_ERRORS - 1
    /\ change_result.tag = "Err"

\* C5: in dry-run mode set_mac_address never runs the command and never
\* returns an error, whatever the interface name: each call returns Ok.
C5_DryRunNeverFails ==
    dry_run =>
        /\ ~cmd_output_called
        /\ exit_status = -1
        /\ change_result.tag # "Err"
        /\ pc = "match" => change_result.tag = "Ok"
        /\ \A i \in 1..Len(recent) : recent[i].ok

C5_Witness ==
    /\ dry_run
    /\ interface_name # DEFAULT_DEVICE_NAME
    /\ pc = "match"
    /\ change_result.tag = "Ok"
    /\ Len(output) = 1 /\ output[1].kind = "dry_run"

\* C6: no step is taken once the controller is Aborted (no address is
\* generated, no command applied, no sleep performed), the loop ends only by
\* returning the error, and rotate_mac_addresses never returns a success value.
C6_AbortedIsTerminal ==
    /\ [][~Aborted]_vars
    /\ [](result.tag # "Ok")
    /\ [](Aborted <=> result.tag = "Err")
    /\ [](~Aborted <=> result.tag = "None")

C6_Witness ==
    /\ Aborted
    /\ result.tag = "Err"
    /\ Len(errors) = MAX_AMOUNT_OF_ERRORS

\* C10: the wait is round(N + N * (base - 0.5) * 0.25) whole seconds for the
\* configured cycle length N, the announced seconds are the duration slept,
\* and N = 1800 with base = 1.0 waits 2025 seconds.
C10_WaitIsRoundedJitter ==
    pc = "sleep" =>
        LET N == cycle_seconds
            \* N + N * (base - 1/2) / 4 = N * (7 * base.d + 2 * base.n) / (8 * base.d)
            num == N * (7 * base.d + 2 * base.n)
            den == 8 * base.d
            nearest == (2 * num + den) \div (2 * den)
        IN  /\ duration = 1000 * nearest
            /\ Len(output) = 1
            /\ output[1].kind = "waiting"
            /\ output[1].seconds * 1000 = duration
            /\ (N = 1800 /\ base.n = base.d) => output[1].seconds = 2025

C10_Witness ==
    /\ pc = "sleep"
    /\ cycle_seconds = 1800
    /\ base.n = base.d
    /\ duration = 2025000

\* ------------------------------------------------------------------------
\* Properties of the pure functions

\* the parts of s between occurrences of the one-character separator sep
RECURSIVE Split(_, _, _, _)
Split(s, sep, i, part) ==
    IF i > Len(s) THEN <<part>>
    ELSE IF SubSeq(s, i, i) = sep
         THEN <<part>> \o Split(s, sep, i + 1, "")
         ELSE Split(s, sep, i + 1, part \o SubSeq(s, i, i))

NonZeroDigits == {"1", "2", "3", "4", "5", "6", "7", "8", "9"}

\* C7: new_random_mac_address returns the chosen vendor and an address of
\* exactly 6 colon-separated octets, no trailing colon, whose first three are
\* the vendor's prefix and whose last three are two digits in 1..9 each.
C7_AddressFormat ==
    ret.fn = "new_random_mac_address" =>
        LET octets == Split(ret.value.new_address, ":", 1, "")
            prefix == Split(mac_address_prefix(call.vendor), ":", 1, "")
        IN  /\ ret.value.vendor = call.vendor
            /\ Len(octets) = 6
            /\ Len(prefix) = 3
            /\ \A i \in 1..3 : octets[i] = prefix[i]
            /\ \A i \in 4..6 :
                  /\ Len(octets[i]) = 2
                  /\ SubSeq(octets[i], 1, 1) \in NonZeroDigits
                  /\ SubSeq(octets[i], 2, 2) \in NonZeroDigits
            /\ SubSeq(ret.value.new_address, 1, 8) = mac_address_prefix(call.vendor)

C7_Witness ==
    /\ ret.fn = "new_random_mac_address"
    /\ call.vendor = "Cisco"
    /\ ret.value.new_address = "00:10:29:19:55:91"

\* C8: for N > 0, variance V in [0,1] and base in [0,1], variate returns a value
\* in [N * (1 - V/2), N * (1 + V/2)], and never a negative one.
C8_VariateInRange ==
    (ret.fn = "variate" /\ call.seconds > 0) =>
        LET N == call.seconds
            V == call.variance
            r == ret.value
        IN  \* N * (2 * V.d - V.n) / (2 * V.d) <= r.n / r.d <= N * (2 * V.d + V.n) / (2 * V.d)
            /\ N * (2 * V.d - V.n) * r.d <= r.n * 2 * V.d
            /\ r.n * 2 * V.d <= N * (2 * V.d + V.n) * r.d
            /\ r.n >= 0

C8_Witness ==
    /\ ret.fn = "variate"
    /\ call.seconds = 7
    /\ call.variance.n = call.variance.d
    /\ call.base.n = 0
    /\ ret.value.n * 2 = 7 * ret.value.d

\* C9: collate_errors of three descriptions d1, d2, d3 is exactly
\* "Failures: d1, d2, d3".
C9_CollateExact ==
    (ret.fn = "collate_errors" /\ Len(call.errors) = 3) =>
        ret.value = "Failures: " \o call.errors[1] \o ", " \o call.errors[2]
                                 \o ", " \o call.errors[3]

C9_Witness ==
    /\ ret.fn = "collate_errors"
    /\ call.errors = <<"ENOENT", "EACCES", "ENOENT">>
    /\ ret.value = "Failures: ENOENT, EACCES, ENOENT"

\* ------------------------------------------------------------------------
\* Properties of the lines, the sleeps and the configuration of the loop

IsWarning(lines) == Len(lines) = 1 /\ lines[1].kind = "warning"

IsSuccess(lines) == Len(lines) = 1 /\ lines[1].kind = "success"

\* C11: every warning reports MAX_AMOUNT_OF_ERRORS minus the length of the
\* FailureLog after the push, so consecutive failures report 2, 1, 0; the
\* subtraction never underflows, and the aborting iteration has warned with 0.
C11_WarningCountsDown ==
    /\ Len(errors) <= MAX_AMOUNT_OF_ERRORS
    /\ IsWarning(output) =>
          /\ ~output[1].underflow
          /\ output[1].errors_count = MAX_AMOUNT_OF_ERRORS - Len(errors)
          /\ output[1].errors_count = MAX_AMOUNT_OF_ERRORS - TrailingFailures(recent)
          /\ output[1].errors_count \in 0..(MAX_AMOUNT_OF_ERRORS - 1)
    /\ Aborted => (IsWarning(output) /\ output[1].errors_count = 0)
    /\ (pc = "variate" /\ ~recent[Len(recent)].ok) =>
          (IsWarning(output) /\ output[1].errors_count \in {1, 2})

C11_Witness ==
    /\ Aborted
    /\ IsWarning(output)
    /\ output[1].errors_count = 0
    /\ Len(errors) = 3

\* C12: the loop top is re-entered only from a returned sleep, a matched result
\* goes on to exactly one variate and one sleep or to the abort, and the abort
\* comes straight from the match with no sleep: while the counters are exact,
\* the sleeps are one fewer than the attempts except at the loop top.
C12_SleepBetweenAttempts ==
    /\ [](attempts < MaxCount =>
            /\ pc = "loop" => sleeps = attempts
            /\ pc \in {"match", "variate", "sleep", "return"} => sleeps = attempts - 1)
    /\ [][/\ pc' = "loop" => (pc = "sleep" /\ sleeps' = Count(sleeps))
          /\ pc' = "match" => (pc = "loop" /\ attempts' = Count(attempts))
          /\ pc = "match" => pc' \in {"variate", "return"}
          /\ pc = "variate" => pc' = "sleep"
          /\ pc' = "sleep" => (pc = "variate" /\ sleeps' = sleeps)
          /\ pc' = "return" => (pc = "match" /\ sleeps' = sleeps)]_vars

C12_Witness ==
    /\ pc = "match"
    /\ attempts = 3
    /\ sleeps = 2
    /\ Len(recent) = 2
    /\ ~recent[1].ok /\ recent[2].ok

\* C13: a cycle makes one attempt and classifies it once: the step that matches
\* the result prints exactly one line, the success line for Ok and the warning
\* for Err, no other step prints either line, and the variate and the sleep
\* come only after that step.
C13_OneClassificationPerCycle ==
    /\ [](/\ pc = "match" => change_result.tag \in {"Ok", "Err"}
          /\ pc \in {"variate", "return"} =>
                /\ IsSuccess(output) \/ IsWarning(output)
                /\ IsSuccess(output) <=> recent[Len(recent)].ok
          /\ pc \in {"loop", "match", "sleep"} =>
                (~IsSuccess(output) /\ ~IsWarning(output))
          /\ (attempts < MaxCount /\ attempts <= MAX_AMOUNT_OF_ERRORS) =>
                Len(recent) = IF pc = "match" THEN attempts - 1 ELSE attempts)
    /\ [][/\ pc = "match" =>
                /\ IsSuccess(output') <=> change_result.tag = "Ok"
                /\ IsWarning(output') <=> change_result.tag = "Err"
          /\ pc' \in {"variate", "return"} => pc = "match"
          /\ pc' = "sleep" => pc = "variate"]_vars

C13_Witness ==
    /\ pc = "variate"
    /\ Len(recent) = 2
    /\ recent[1].ok /\ ~recent[2].ok
    /\ IsWarning(output)

\* C14: without dry_run, a command that ran to completion is Ok whatever its
\* exit status, an Err is only a command that did not run to completion, and
\* matching a completed command clears the FailureLog and goes on to the sleep.
C14_ExitStatusIgnored ==
    /\ []((~dry_run /\ pc = "match") =>
            /\ cmd_output_called
            /\ change_result.tag = "Ok" <=> exit_status # -1
            /\ change_result.tag = "Err" <=> exit_status = -1)
    /\ [][(~dry_run /\ pc = "match" /\ exit_status # -1) =>
            /\ errors' = <<>>
            /\ pc' = "variate"
            /\ IsSuccess(output')
            /\ recent'[Len(recent')].ok]_vars

C14_Witness ==
    /\ ~dry_run
    /\ pc = "match"
    /\ exit_status = 1
    /\ change_result.tag = "Ok"
    /\ Len(errors) = 2

\* C15: when every command attempt fails and every attempt and sleep returns,
\* the loop reaches Aborted, after exactly 3 attempts and 2 sleeps.
C15_AllFailuresTerminate ==
    /\ <>Aborted
    /\ [](Aborted => (attempts = 3 /\ sleeps = 2))

C15_Witness ==
    /\ Aborted
    /\ ~dry_run
    /\ attempts = 3
    /\ sleeps = 2

\* C16: in dry-run mode the controller is never Aborted, the FailureLog is
\* always empty, no warning is printed, a step is always possible, and the
\* steps go round the dry-run report, the success line and the sleep.
C16_DryRunRunsForever ==
    /\ [](dry_run =>
            /\ ~Aborted
            /\ pc # "panic"
            /\ errors = <<>>
            /\ result.tag = "None"
            /\ ~IsWarning(output)
            /\ pc = "match" => (Len(output) = 1 /\ output[1].kind = "dry_run")
            /\ pc = "variate" => IsSuccess(output)
            /\ pc = "sleep" => (Len(output) = 1 /\ output[1].kind = "waiting")
            /\ ENABLED Next)
    /\ [][dry_run =>
            /\ pc = "loop" => pc' = "match"
            /\ pc = "match" => pc' = "variate"
            /\ pc = "variate" => pc' = "sleep"
            /\ pc = "sleep" => pc' = "loop"]_vars

C16_Witness ==
    /\ dry_run
    /\ pc = "sleep"
    /\ attempts = 3
    /\ sleeps = 2
    /\ Len(recent) = 3

\* the pairs new_random_mac_address can return on the digit draws of the loop
LoopPairs ==
    {new_random_mac_address(v, ds) : v \in pick, ds \in LoopDigitRuns}

\* C17: every step that enters the match, the retries included, brings a pair
\* generated in that step: the command is given that pair's address, an Ok
\* carries that pair, the address starts with the prefix of the pair's vendor,
\* the success line names that pair, and no pair outlives its match.
C17_FreshPairEachIteration ==
    /\ [](/\ pc = "match" =>
                /\ generated.vendor \in pick
                /\ SubSeq(generated.new_address, 1, 8)
                      = mac_address_prefix(generated.vendor)
                /\ command.args[Len(command.args)] = generated.new_address
                /\ change_result.tag = "Ok" =>
                      /\ change_result.new_address = generated.new_address
                      /\ change_result.vendor = generated.vendor
          /\ pc # "match" => (generated = NoPair /\ command = NoCommand))
    /\ [][/\ pc' = "match" => generated' \in LoopPairs
          /\ (pc = "match" /\ change_result.tag = "Ok") =>
                /\ IsSuccess(output')
                /\ output'[1].new_address = generated.new_address
                /\ output'[1].vendor = vendor_fmt(generated.vendor)]_vars

C17_Witness ==
    /\ pc = "match"
    /\ Len(errors) = 1
    /\ change_result.tag = "Ok"
    /\ generated.vendor = "HewlettPackard"
    /\ generated.new_address = "00:1b:78:19:19:19"

\* C18: the interface name, cycle length and dry-run flag of the loop stay the
\* ones parsed at startup: every command is built for that interface, run or
\* not by that flag, and every wait is the jitter of that cycle length.
C18_ConfigurationUnchanged ==
    /\ [](/\ interface_name = flags.interface_name
          /\ cycle_seconds = flags.cycle_seconds
          /\ dry_run = flags.dry_run
          /\ pc = "match" =>
                /\ command.args[Len(command.args) - 2] = flags.interface_name
                /\ cmd_output_called = ~flags.dry_run
          /\ pc = "sleep" =>
                /\ 875 * flags.cycle_seconds - 500 <= duration
                /\ duration <= 1125 * flags.cycle_seconds + 500)
    /\ [][UNCHANGED <<target_os, interface_name, cycle_seconds, dry_run, flags>>]_vars

C18_Witness ==
    /\ pc = "sleep"
    /\ attempts = 3
    /\ Len(errors) = 2
    /\ flags.cycle_seconds = 12
    /\ flags.interface_name # DEFAULT_DEVICE_NAME

HexDigits == {"0", "1", "2", "3", "4", "5", "6", "7", "8", "9",
              "a", "b", "c", "d", "e", "f"}

\* C19: the vendor table has 5 entries, pick returns only members of it and
\* never panics, and every vendor's prefix is 3 octets of two hex digits.
C19_VendorTableNonEmpty ==
    /\ Len(VENDORS) = 5
    /\ pick = {VENDORS[i] : i \in 1..Len(VENDORS)}
    /\ "panic" \notin pick
    /\ pc # "panic"
    /\ pc = "match" => generated.vendor \in {VENDORS[i] : i \in 1..Len(VENDORS)}
    /\ \A v \in pick :
          LET octets == Split(mac_address_prefix(v), ":", 1, "")
          IN  /\ Len(octets) = 3
              /\ \A i \in 1..3 :
                    /\ Len(octets[i]) = 2
                    /\ SubSeq(octets[i], 1, 1) \in HexDigits
                    /\ SubSeq(octets[i], 2, 2) \in HexDigits

C19_Witness ==
    /\ pc = "match"
    /\ generated.vendor = "Amd"
    /\ attempts = 2

====
